---- MODULE Spec2Model ----
(***************************************************************************)
(* A model of src/main.rs: decoding an ext4 layout from a raw block        *)
(* device.  The program is main(): it decodes the superblock, the root     *)
(* inode (inode 2), lists the root directory, looks up "dind" in it, then  *)
(* "run.sh" in that directory, and reads the file's bytes.                 *)
(*                                                                         *)
(* The device is read-only.  Its content is the program's input: dev holds *)
(* the bytes the program has read so far, and a read of bytes not read     *)
(* before draws them from a small set (a second read of the same bytes     *)
(* returns the same bytes).  Every field is decoded from its bytes in      *)
(* little-endian order, as the Reader does.                                *)
(*                                                                         *)
(* Values stay below 2^31: the images drawn keep the high halves of the    *)
(* split 64-bit fields zero, and the block-size exponent field in {1, 2}.  *)
(* Directory records name inodes >= 1 (inode 0 makes self.0 - 1 overflow). *)
(***************************************************************************)
EXTENDS Integers, Sequences, FiniteSets, TLC

VARIABLES
    dev,        \* the device bytes read so far: absolute offset -> byte
    pc,         \* main's position
    outcome,    \* "running", "ok", "io_error" (a returned Err) or a panic
    sb,         \* super_block: <<>> or <<SuperBlock>>
    root_bgd,   \* main's root_bgd: <<>> or <<BlockGroupDescriptor>>
    level,      \* how many path components have been resolved
    caller,     \* who called dir_entries: "main" or "find_entry_name"
    num,        \* the InodeNumber being resolved
    loc,        \* the addresses computed for num: <<>> or <<record>>
    inode,      \* the Inode last decoded: <<>> or <<Inode>>
    data,       \* the slice Inode::data returned: <<>> or <<Slice>>
    offset,     \* dir_entries' cursor
    entries,    \* dir_entries' vector
    found,      \* find_entry_name's Option<InodeNumber>: <<>> or <<n>>
    buf         \* main's buf: <<>> before the read, <<bytes>> after

vars == <<dev, pc, outcome, sb, root_bgd, level, caller, num, loc, inode,
          data, offset, entries, found, buf>>

-----------------------------------------------------------------------------
(* Bounds of the model. *)

\* Bytes the device holds: reads at or past it return no bytes.
DevSize == 65536
\* Iterations of the dir_entries loop that are explored.
MaxEntries == 3

-----------------------------------------------------------------------------
(* Program constants. *)

SuperBlockOffset == 1024
DescriptorSize == 64
RootInode == 2
ExtentMagic == 62218

\* "dind" and "run.sh", as code points.
Path == << <<100, 105, 110, 100>>, <<114, 117, 110, 46, 115, 104>> >>

Min(a, b) == IF a < b THEN a ELSE b

-----------------------------------------------------------------------------
(* positioned_io: Slice and the reads through it. *)

NoSize == -1

Slice(off, size) == [off |-> off, size |-> size]

\* Slice::avail: how many of `bytes` bytes at pos the slice lets through.
Avail(size, pos, bytes) ==
    IF size = NoSize THEN bytes
    ELSE IF pos >= size THEN 0
    ELSE Min(bytes, size - pos)

\* The file's read_at (pread): short at the end of the device.
DevReadAt(pos, bytes) ==
    IF pos >= DevSize THEN 0 ELSE Min(bytes, DevSize - pos)

\* Slice::read_at through a chain of slices, innermost first, over the
\* device: the number of bytes read.
RECURSIVE SliceReadAt(_, _, _)
SliceReadAt(r, pos, bytes) ==
    IF r = <<>> THEN DevReadAt(pos, bytes)
    ELSE SliceReadAt(Tail(r), pos + Head(r).off, Avail(Head(r).size, pos, bytes))

\* The absolute device offset of position pos of a chain of slices.
RECURSIVE AbsOffset(_, _)
AbsOffset(r, pos) ==
    IF r = <<>> THEN pos ELSE AbsOffset(Tail(r), pos + Head(r).off)

\* read_exact / read_exact_at: all the bytes or an UnexpectedEof error.
ReadExact(r, pos, bytes) ==
    bytes = 0 \/ SliceReadAt(r, pos, bytes) = bytes

-----------------------------------------------------------------------------
(* Reader: little-endian decoding of bytes d at absolute offset a. *)

U8(d, a) == d[a]

U16(d, a) == d[a] + 256 * d[a + 1]

U32(d, a) == d[a] + 256 * d[a + 1] + 65536 * d[a + 2] + 16777216 * d[a + 3]

U64LoHi(d, lo, hi) == (U32(d, hi) * 65536) * 65536 + U32(d, lo)

Vec(d, a, len) == [i \in 1..len |-> d[a + i - 1]]

-----------------------------------------------------------------------------
(* The device's bytes, as whoever wrote the filesystem laid them out.      *)
(* An image maps offsets relative to a structure's start to bytes.         *)

Enc8(off, v) == off :> v

Enc16(off, v) == (off :> (v % 256)) @@ ((off + 1) :> (v \div 256))

Enc32(off, v) ==
    (off :> (v % 256)) @@ ((off + 1) :> ((v \div 256) % 256)) @@
    ((off + 2) :> ((v \div 65536) % 256)) @@ ((off + 3) :> (v \div 16777216))

Bytes(off, s) == [o \in off..(off + Len(s) - 1) |-> s[o - off + 1]]

Zeros(off, len) == [o \in off..(off + len - 1) |-> 0]

\* The device bytes known after a read of a structure at base: the bytes
\* read before stay as they are, the others are those of image img.
Materialise(d, base, img) ==
    d @@ [a \in {base + o : o \in DOMAIN img} |-> img[a - base]]

-----------------------------------------------------------------------------
(* SuperBlock. *)

SbImage(magic, log, bpg, ipg, isize) ==
    Enc16(56, magic) @@ Enc32(24, log) @@ Enc32(32, bpg) @@ Enc32(40, ipg) @@
    Enc16(88, isize)

\* Superblocks the device may hold: <<magic, log block size, inodes per
\* group, inode size>>.
SbImages ==
    { SbImage(p[1], p[2], 32768, p[3], p[4]) :
        p \in { <<61267, 2, 8192, 256>>, <<61267, 1, 4, 128>>,
                <<4660, 2, 4, 256>>, <<61267, 2, 0, 256>>,
                <<61267, 2, 8192, 64>> } }

BaseSbImages == { SbImage(61267, 2, 32768, 8192, 256) }

\* SuperBlock::new's decoding through Reader r = Slice(dev, 1024, None).
DecodeSuperBlock(d, base) ==
    [ magic           |-> U16(d, base + 56),
      block_size      |-> 2 ^ (10 + U32(d, base + 24)),
      block_per_group |-> U32(d, base + 32),
      inode_per_group |-> U32(d, base + 40),
      inode_size      |-> U16(d, base + 88) ]

Finish(o) == pc' = "done" /\ outcome' = o

SuperBlockNew(images) ==
    /\ pc = "super_block"
    /\ LET r == << Slice(SuperBlockOffset, NoSize) >> IN
       IF ~ ( ReadExact(r, 56, 2) /\ ReadExact(r, 24, 4) /\ ReadExact(r, 32, 4)
              /\ ReadExact(r, 40, 4) /\ ReadExact(r, 88, 2) )
       THEN /\ Finish("io_error")
            /\ UNCHANGED <<dev, sb>>
       ELSE \E img \in images :
            /\ dev' = Materialise(dev, SuperBlockOffset, img)
            /\ sb' = << DecodeSuperBlock(dev', AbsOffset(r, 0)) >>
            /\ pc' = "root_bgd"
            /\ outcome' = outcome
    /\ UNCHANGED <<root_bgd, level, caller, num, loc, inode, data, offset,
                   entries, found, buf>>

-----------------------------------------------------------------------------
(* Block groups and inode addresses. *)

\* A block_group_number that takes the inode number as zero-based.
BlockGroupNumberZeroBased(n, ipg) == n \div ipg

\* InodeNumber::block_group_number.
BlockGroupNumber(n, ipg) == (n - 1) \div ipg

\* BlockGroupNumber::block_group_descriptor_slice: the descriptor's offset.
DescriptorOffset(group, bs) == bs + group * DescriptorSize

\* InodeNumber::inode_slice: the inode's index in its group's table.
InodeIndex(n, ipg) == (n - 1) % ipg

\* InodeNumber::inode_slice: the inode record's offset.
InodeOffset(table, index, bs, isize) == table * bs + index * isize

BgdImage(table) == Enc32(8, table) @@ Enc32(40, 0)

\* Inode tables a descriptor may name (block 100 is past the device).
BgdImages == { BgdImage(t) : t \in {2, 3, 100} }

BaseBgdImages == { BgdImage(2) }

\* BlockGroupDescriptor::new through a Reader at absolute offset base.
DecodeDescriptor(d, base) == [ inode_table |-> U64LoHi(d, base + 8, base + 40) ]

DescriptorReadable(r) == ReadExact(r, 8, 4) /\ ReadExact(r, 40, 4)

\* main, lines 288-292: the root's group and its descriptor.
RootBgd(images) ==
    /\ pc = "root_bgd"
    /\ IF sb[1].inode_per_group = 0
       THEN /\ Finish("panic_divide_by_zero")
            /\ UNCHANGED <<dev, root_bgd>>
       ELSE LET group == BlockGroupNumber(RootInode, sb[1].inode_per_group)
                off   == DescriptorOffset(group, sb[1].block_size)
                r     == << Slice(off, NoSize) >>
            IN  IF ~ DescriptorReadable(r)
                THEN /\ Finish("io_error")
                     /\ UNCHANGED <<dev, root_bgd>>
                ELSE \E img \in images :
                     /\ dev' = Materialise(dev, off, img)
                     /\ root_bgd' = << DecodeDescriptor(dev', AbsOffset(r, 0)) >>
                     /\ pc' = "inode"
                     /\ outcome' = outcome
    /\ UNCHANGED <<sb, level, caller, num, loc, inode, data, offset, entries,
                   found, buf>>

-----------------------------------------------------------------------------
(* Inode. *)

\* An inode record: mode, size, and in its 60-byte block an extent header
\* (magic, entries, depth) and the first extent (len, start).
InodeImage(mode, size, magic, nentries, depth, len, start) ==
    Enc16(0, mode) @@ Enc32(4, size) @@ Enc32(108, 0) @@
    Enc16(40, magic) @@ Enc16(42, nentries) @@ Enc16(46, depth) @@
    Enc16(56, len) @@ Enc16(58, 0) @@ Enc32(60, start) @@ Zeros(40, 60)

\* <<mode, size, header magic, header entries, header depth, extent len,
\* extent start>>: two directories, regular files, a symbolic link with a
\* deeper tree, a mode with no known type and two extents, a bad header
\* magic, and extents of two blocks.  The sizes are a few bytes, so that
\* the read of a file's bytes is a read of a few bytes.
InodeImages ==
    { InodeImage(p[1], p[2], p[3], p[4], p[5], p[6], p[7]) :
        p \in { <<16877, 12, 62218, 1, 0, 1, 5>>,
                <<16877, 12, 62218, 1, 0, 1, 6>>,
                <<33188, 11, 62218, 1, 0, 1, 8>>,
                <<33188, 5, 62218, 1, 0, 1, 16>>,
                <<41471, 11, 62218, 1, 1, 1, 8>>,
                <<493, 5, 62218, 2, 0, 1, 8>>,
                <<33188, 11, 0, 1, 0, 1, 8>>,
                <<33188, 11, 62218, 1, 0, 2, 8>>,
                <<16877, 12, 62218, 1, 0, 2, 5>> } }

BaseInodeImages ==
    { InodeImage(16877, 12, 62218, 1, 0, 1, s) : s \in {5, 6} }

\* Inode::new through a Reader at absolute offset base.
DecodeInode(d, base) ==
    [ mode  |-> U16(d, base),
      size  |-> U64LoHi(d, base + 4, base + 108),
      block |-> Vec(d, base + 40, 60) ]

InodeReadable(r) ==
    ReadExact(r, 0, 2) /\ ReadExact(r, 4, 4) /\ ReadExact(r, 108, 4)
    /\ ReadExact(r, 40, 60)

\* Where main goes with the inode it has loaded: the root is listed, a
\* directory on the path is searched, the last inode is the file.
AfterInode ==
    IF level < Len(Path)
    THEN /\ pc' = "dir_entries"
         /\ caller' = IF level = 0 THEN "main" ELSE "find_entry_name"
    ELSE /\ pc' = "file_type"
         /\ caller' = "main"

\* InodeNumber::inode: inode_slice (the group's descriptor, the offsets)
\* and Inode::new.
LoadInode(bimages, iimages) ==
    /\ pc = "inode"
    /\ IF sb[1].inode_per_group = 0
       THEN /\ Finish("panic_divide_by_zero")
            /\ UNCHANGED <<dev, loc, inode, caller>>
       ELSE LET group == BlockGroupNumber(num, sb[1].inode_per_group)
                boff  == DescriptorOffset(group, sb[1].block_size)
                br    == << Slice(boff, NoSize) >>
            IN  IF ~ DescriptorReadable(br)
                THEN /\ Finish("io_error")
                     /\ UNCHANGED <<dev, loc, inode, caller>>
                ELSE \E bimg \in bimages :
                     LET d1    == Materialise(dev, boff, bimg)
                         bgd   == DecodeDescriptor(d1, AbsOffset(br, 0))
                         index == InodeIndex(num, sb[1].inode_per_group)
                         ioff  == InodeOffset(bgd.inode_table, index,
                                              sb[1].block_size, sb[1].inode_size)
                         ir    == << Slice(ioff, sb[1].inode_size) >>
                         where == [ group |-> group, bgd_offset |-> boff,
                                    inode_table |-> bgd.inode_table,
                                    index |-> index, inode_offset |-> ioff ]
                     IN  IF ~ InodeReadable(ir)
                         THEN /\ Finish("io_error")
                              /\ dev' = d1
                              /\ loc' = << where >>
                              /\ UNCHANGED <<inode, caller>>
                         ELSE \E iimg \in iimages :
                              /\ dev' = Materialise(d1, ioff, iimg)
                              /\ loc' = << where >>
                              /\ inode' = << DecodeInode(dev', AbsOffset(ir, 0)) >>
                              /\ AfterInode
                              /\ outcome' = outcome
    /\ UNCHANGED <<sb, root_bgd, level, num, data, offset, entries, found, buf>>

\* The file types of FileType, by their code.
FileTypes ==
    ( 4096 :> "Fifo" ) @@ ( 8192 :> "CharacterDevice" ) @@
    ( 16384 :> "Directory" ) @@ ( 24576 :> "BlockDevice" ) @@
    ( 32768 :> "Regular" ) @@ ( 40960 :> "SymbolicLink" ) @@
    ( 49152 :> "Socket" )

\* FileType::try_from(code): <<variant>>, or <<>> for the Err.
TryFromPrimitive(code) ==
    IF code \in DOMAIN FileTypes THEN << FileTypes[code] >> ELSE <<>>

\* Inode::file_type before its unwrap: try_from(self.mode & 0xF000).
FileTypeOf(mode) == TryFromPrimitive((mode \div 4096) * 4096)

\* Reader over the inode's block (a Vec<u8>), at position pos.
VecU16(v, pos) == v[pos + 1] + 256 * v[pos + 2]

VecU32(v, pos) ==
    v[pos + 1] + 256 * v[pos + 2] + 65536 * v[pos + 3] + 16777216 * v[pos + 4]

\* ExtentHeader::new on Slice(block, 0, Some(12)), its magic assertion apart.
ExtentHeaderNew(block) ==
    [ entries |-> VecU16(block, 2), depth |-> VecU16(block, 6) ]

\* Extent::new on Slice(block, 12, Some(12)).
ExtentNew(block) ==
    [ len   |-> VecU16(block, 12 + 4),
      start |-> (VecU16(block, 12 + 6) * 65536) * 65536 + VecU32(block, 12 + 8) ]

\* An extent range whose length is taken in bytes, not in blocks.
ExtentRangeInBytes(ext, bs) == Slice(ext.start * bs, ext.len)

\* Inode::data, lines 173-175: the slice of the device the extent covers.
ExtentRange(ext, bs) == Slice(ext.start * bs, ext.len * bs)

\* Inode::data: a panic of one of its assertions, or the slice.
InodeData(ino, s) ==
    IF VecU16(ino.block, 0) # ExtentMagic
    THEN [ status |-> "panic_assert_magic", slice |-> <<>> ]
    ELSE IF ExtentNew(ino.block).len # 1
    THEN [ status |-> "panic_assert_len", slice |-> <<>> ]
    ELSE [ status |-> "ok",
           slice |-> << ExtentRange(ExtentNew(ino.block), s.block_size) >> ]

-----------------------------------------------------------------------------
(* Directory entries. *)

\* String::from_utf8_lossy on name bytes that are ASCII or 0xFF (a byte no
\* UTF-8 sequence holds): each 0xFF becomes U+FFFD.
FromUtf8Lossy(bytes) ==
    [i \in 1..Len(bytes) |-> IF bytes[i] < 128 THEN bytes[i] ELSE 65533]

RecordImage(ino, rec_len, name) ==
    Enc32(0, ino) @@ Enc16(4, rec_len) @@ Enc8(6, Len(name)) @@ Bytes(8, name)

NameDind == <<100, 105, 110, 100>>
NameRunSh == <<114, 117, 110, 46, 115, 104>>
NameX == <<120>>
NameBad == <<100, 105, 110, 255>>

\* Records the device may hold where rest bytes of the directory's data are
\* left: <<inode, record length, name>>.  The few of the walk through main,
\* each filling the rest of the data; or many: short records, records
\* filling the rest, a record of length zero, records running past the end
\* and one ending 4 bytes before it.
RecordImages(rest, rich) ==
    { RecordImage(p[1], p[2], p[3]) :
        p \in IF rich
              THEN { <<1, 12, NameX>>, <<5, 12, NameDind>>, <<12, 12, NameDind>>,
                     <<12, rest, NameRunSh>>, <<5, rest, NameBad>>,
                     <<1, 0, NameX>>, <<5, rest + 4, NameDind>>,
                     <<1, rest - 4, NameX>> }
              ELSE { <<5, rest, NameDind>>, <<12, rest, NameRunSh>>,
                     <<1, rest, NameX>> } }

\* DirectoryEntry::new through a Reader at absolute offset base.
DecodeEntry(d, base) ==
    [ len   |-> U16(d, base + 4),
      inode |-> U32(d, base),
      name  |-> FromUtf8Lossy(Vec(d, base + 8, U8(d, base + 6))) ]

\* Inode::dir_entries, lines 179-183: the data slice and the empty vector.
DirEntriesBegin ==
    /\ pc = "dir_entries"
    /\ LET res == InodeData(inode[1], sb[1]) IN
       IF res.status # "ok"
       THEN /\ Finish(res.status)
            /\ UNCHANGED <<data, offset, entries>>
       ELSE /\ data' = res.slice
            /\ offset' = 0
            /\ entries' = <<>>
            /\ pc' = "dir_loop"
            /\ outcome' = outcome
    /\ UNCHANGED <<dev, sb, root_bgd, level, caller, num, loc, inode, found, buf>>

\* Inode::dir_entries, lines 184-192: one pass of the loop.
DirLoop(rich) ==
    /\ pc = "dir_loop"
    /\ LET total_len == data[1].size IN
       IF offset >= total_len
       THEN /\ IF caller = "main"
               THEN pc' = "dir_entries" /\ caller' = "find_entry_name"
               ELSE pc' = "find" /\ caller' = caller
            /\ UNCHANGED <<dev, outcome, offset, entries>>
       ELSE /\ Len(entries) < MaxEntries
            /\ LET r    == << Slice(offset, NoSize), data[1] >>
                   base == AbsOffset(r, 0)
               IN  IF ~ ( ReadExact(r, 6, 1) /\ ReadExact(r, 0, 4)
                          /\ ReadExact(r, 4, 2) )
                   THEN /\ Finish("io_error")
                        /\ UNCHANGED <<dev, caller, offset, entries>>
                   ELSE \E img \in RecordImages(total_len - offset, rich) :
                        LET d1 == Materialise(dev, base, img) IN
                        IF ~ ReadExact(r, 8, U8(d1, base + 6))
                        THEN /\ Finish("io_error")
                             /\ UNCHANGED <<dev, caller, offset, entries>>
                        ELSE /\ dev' = d1
                             /\ offset' = offset + DecodeEntry(d1, base).len
                             /\ entries' = Append(entries, DecodeEntry(d1, base))
                             /\ UNCHANGED <<pc, outcome, caller>>
    /\ UNCHANGED <<sb, root_bgd, level, num, loc, inode, data, found, buf>>

\* A find_entry_name that returns the last matching entry.
FindEntryNameLast(es, name) ==
    LET matching == SelectSeq(es, LAMBDA x : x.name = name) IN
    IF matching = <<>> THEN <<>> ELSE << matching[Len(matching)].inode >>

\* Inode::find_entry_name, lines 202-206: filter, map, next.
FindEntryName(es, name) ==
    LET matching == SelectSeq(es, LAMBDA x : x.name = name) IN
    IF matching = <<>> THEN <<>> ELSE << Head(matching).inode >>

\* Inode::find_entry_name returns, after its dir_entries.
Find ==
    /\ pc = "find"
    /\ found' = FindEntryName(entries, Path[level + 1])
    /\ pc' = "expect"
    /\ UNCHANGED <<dev, outcome, sb, root_bgd, level, caller, num, loc, inode,
                   data, offset, entries, buf>>

\* main, lines 306-307 and 311-312: expect, then the inode found is to be
\* loaded; the directory's inode, entries and data are not used again.
Expect ==
    /\ pc = "expect"
    /\ IF found = <<>>
       THEN /\ Finish("panic_expect")
            /\ UNCHANGED <<level, num, loc, inode, data, offset, entries, found>>
       ELSE /\ num' = found[1]
            /\ level' = level + 1
            /\ pc' = "inode"
            /\ loc' = <<>>
            /\ inode' = <<>>
            /\ data' = <<>>
            /\ offset' = 0
            /\ entries' = <<>>
            /\ found' = <<>>
            /\ outcome' = outcome
    /\ UNCHANGED <<dev, sb, root_bgd, caller, buf>>

-----------------------------------------------------------------------------
(* The file. *)

\* main, lines 313-316: file_type() of the inode found, and its unwrap.
FileType ==
    /\ pc = "file_type"
    /\ IF FileTypeOf(inode[1].mode) = <<>>
       THEN Finish("panic_unwrap_file_type")
       ELSE pc' = "data" /\ outcome' = outcome
    /\ UNCHANGED <<dev, sb, root_bgd, level, caller, num, loc, inode, data,
                   offset, entries, found, buf>>

\* main, line 317: the file's data slice.
FileData ==
    /\ pc = "data"
    /\ LET res == InodeData(inode[1], sb[1]) IN
       IF res.status # "ok"
       THEN Finish(res.status) /\ data' = data
       ELSE data' = res.slice /\ pc' = "read" /\ outcome' = outcome
    /\ UNCHANGED <<dev, sb, root_bgd, level, caller, num, loc, inode, offset,
                   entries, found, buf>>

\* "hello world" and another content; a file's bytes repeat one of them.
FileContents ==
    { <<104, 101, 108, 108, 111, 32, 119, 111, 114, 108, 100>>,
      <<35, 33, 47, 98, 105, 110, 47, 115, 104, 10, 1>> }

FileImages(n) ==
    { [o \in 0..(n - 1) |-> c[(o % Len(c)) + 1]] : c \in FileContents }

\* main, lines 318-319: buf = vec![0; size]; data.read_at(0, &mut buf),
\* whose count of bytes read is dropped.
ReadFile ==
    /\ pc = "read"
    /\ LET size == inode[1].size
           r    == << data[1] >>
           n    == SliceReadAt(r, 0, size)
           abs  == AbsOffset(r, 0)
       IN  \E img \in FileImages(n) :
           /\ dev' = Materialise(dev, abs, img)
           /\ buf' = << [i \in 1..size |-> IF i <= n THEN dev'[abs + i - 1] ELSE 0] >>
    /\ Finish("ok")
    /\ UNCHANGED <<sb, root_bgd, level, caller, num, loc, inode, data, offset,
                   entries, found>>

-----------------------------------------------------------------------------
Init ==
    /\ dev = [a \in {} |-> 0]
    /\ pc = "super_block"
    /\ outcome = "running"
    /\ sb = <<>>
    /\ root_bgd = <<>>
    /\ level = 0
    /\ caller = "main"
    /\ num = RootInode
    /\ loc = <<>>
    /\ inode = <<>>
    /\ data = <<>>
    /\ offset = 0
    /\ entries = <<>>
    /\ found = <<>>
    /\ buf = <<>>

\* main on devices of many superblocks, descriptors and inodes.
Next ==
    \/ SuperBlockNew(SbImages)
    \/ RootBgd(BgdImages)
    \/ LoadInode(BgdImages, InodeImages)
    \/ DirEntriesBegin
    \/ DirLoop(FALSE)
    \/ Find
    \/ Expect
    \/ FileType
    \/ FileData
    \/ ReadFile

Spec == Init /\ [][Next]_vars

\* main on devices of one geometry whose directories hold many records,
\* up to the lookup of the last path component.
NextDir ==
    \/ SuperBlockNew(BaseSbImages)
    \/ RootBgd(BaseBgdImages)
    \/ LoadInode(BaseBgdImages, BaseInodeImages)
    \/ DirEntriesBegin
    \/ DirLoop(TRUE)
    \/ Find
    \/ Expect

SpecDir == Init /\ [][NextDir]_vars
-----------------------------------------------------------------------------
(* The claims.  Each reads the device bytes and the inode's block with the *)
(* field layout of the specification, not with the program's decoders.     *)

\* The u16 and u32 the device holds at absolute offset a.
DevU16(a) == dev[a] + 256 * dev[a + 1]

DevU32(a) == dev[a] + 256 * dev[a + 1] + 65536 * dev[a + 2] + 16777216 * dev[a + 3]

\* The extent-tree root of the inode last decoded: bytes 1..12 are the
\* header (magic at 0, entries at 2, depth at 6), bytes 13..24 the extent
\* (length at 4, start_lo at 8).
RootMagic == inode[1].block[1] + 256 * inode[1].block[2]
RootEntries == inode[1].block[3] + 256 * inode[1].block[4]
RootDepth == inode[1].block[7] + 256 * inode[1].block[8]
RootExtentLen == inode[1].block[17] + 256 * inode[1].block[18]
RootExtentStart ==
    inode[1].block[21] + 256 * inode[1].block[22] + 65536 * inode[1].block[23]
    + 16777216 * inode[1].block[24]

\* The file-type code of the inode last decoded: the top four bits of mode.
TypeCode == (inode[1].mode \div 4096) % 16

\* C1: a SuperBlock is returned only if the magic the device holds at
\* 1024 + 0x38 is 0xEF53 (61267); on any other magic the decode fails.
C1_SuperBlockOnlyWithMagic ==
    sb # <<>> => DevU16(1024 + 56) = 61267

\* C2: Inode::data on an extent-tree root whose header has a magic other
\* than 0xF30A, a depth other than 0 or an entry count other than 1 does not
\* panic and returns no data view.
C2_BadHeaderIsRefused ==
    ( inode # <<>> /\ (RootMagic # 62218 \/ RootDepth # 0 \/ RootEntries # 1) )
    => ( data = <<>>
         /\ outcome \notin {"panic_assert_magic", "panic_assert_len"} )

\* Where the i-th record of entries starts: the sum of the lengths before it.
RECURSIVE RecordStart(_)
RecordStart(i) == IF i = 1 THEN 0 ELSE RecordStart(i - 1) + entries[i - 1].len

\* C3: dir_entries' loop ends: a record whose length is zero, or whose
\* length runs past the total size, ends the iteration (with an error), so
\* it is never pushed with the loop going on or returning its entries.
C3_BadRecordEndsIteration ==
    ( pc \in {"dir_loop", "find", "expect"} /\ data # <<>> )
    => \A i \in 1..Len(entries) :
          /\ entries[i].len > 0
          /\ RecordStart(i) + entries[i].len <= data[1].size

\* C4: when dir_entries has returned its entries, the records partition the
\* data region: their lengths add up to the region's total size.
C4_RecordsPartitionRegion ==
    ( pc \in {"find", "expect"} /\ data # <<>> )
    => RecordStart(Len(entries) + 1) = data[1].size

\* The entries of es in the order of permutation p of their indexes.
Permuted(es, p) == [i \in 1..Len(es) |-> es[p[i]]]

\* C5: find_entry_name returns the inode of the first entry, in on-disk
\* order, whose name is the name asked for, none exactly when no entry has
\* it, and the same inode in any order of the entries when one entry has it.
C5_FirstMatchingEntry ==
    pc = "expect" =>
        LET name == Path[level + 1]
            hits == { i \in 1..Len(entries) : entries[i].name = name }
        IN  /\ (hits = {}) <=> (found = <<>>)
            /\ hits # {} =>
                 found = << entries[CHOOSE i \in hits : \A j \in hits : i <= j].inode >>
            /\ Cardinality(hits) = 1 =>
                 \A p \in Permutations(1..Len(entries)) :
                     FindEntryName(Permuted(entries, p), name) = found

\* Two entries carry the name asked for, with different inodes, and the
\* first one's inode is what the lookup returned.
C5_Witness ==
    /\ pc = "expect"
    /\ \E i, j \in 1..Len(entries) :
          /\ i < j
          /\ entries[i].name = Path[level + 1]
          /\ entries[j].name = Path[level + 1]
          /\ \A k \in 1..(i - 1) : entries[k].name # Path[level + 1]
          /\ entries[i].inode # entries[j].inode
          /\ found = << entries[i].inode >>

\* A lookup went through the whole directory and no entry has the name of
\* the path component looked up.
LookupMissed ==
    /\ level < Len(Path)
    /\ caller = "find_entry_name"
    /\ data # <<>>
    /\ offset >= data[1].size
    /\ \A i \in 1..Len(entries) : entries[i].name # Path[level + 1]

\* C6: when a path component has no matching entry, resolution ends at it
\* with a not-found error returned to the caller, not with a panic.
C6_MissingSegmentIsReturned ==
    ( pc = "done" /\ LookupMissed ) => outcome = "not_found"

\* The file's inode is decoded and main is at or past the file's steps.
AtFile == level = Len(Path) /\ inode # <<>>

\* The file's inode has a single leaf extent.
SingleLeaf == RootMagic = 62218 /\ RootEntries = 1 /\ RootDepth = 0

\* The view Inode::data gave is the extent's range of blocks.
DataIsExtentRange ==
    data[1] = [ off  |-> RootExtentStart * sb[1].block_size,
                size |-> RootExtentLen * sb[1].block_size ]

\* The read of the extent of the file's inode gave the first size bytes the
\* device holds from the extent's start on.
ReadGaveDeviceBytes ==
    /\ data # <<>>
    /\ DataIsExtentRange
    /\ outcome = "ok" =>
         /\ Len(buf[1]) = inode[1].size
         /\ \A i \in 1..inode[1].size :
               buf[1][i] = dev[RootExtentStart * sb[1].block_size + i - 1]

\* The declared size fits the extent, and the bytes are on the device.
SizeFits ==
    /\ inode[1].size <= RootExtentLen * sb[1].block_size
    /\ RootExtentStart * sb[1].block_size + inode[1].size <= DevSize

C8_InodeAddress ==
    ( loc # <<>> /\ num >= 1 /\ sb[1].inode_per_group > 0 ) =>
        LET ipg == sb[1].inode_per_group
            bs  == sb[1].block_size
            l   == loc[1]
        IN  /\ l.group = (num - 1) \div ipg
            /\ l.index = (num - 1) % ipg
            /\ l.index < ipg
            /\ l.bgd_offset = bs + l.group * 64
            /\ l.inode_table = DevU32(l.bgd_offset + 8)
            /\ l.inode_offset = l.inode_table * bs + l.index * sb[1].inode_size
            /\ (inode # <<>> /\ pc # "done") => inode[1].mode = DevU16(l.inode_offset)

\* Inode 12 of a filesystem of 4 inodes per group was decoded from slot 3 of
\* group 2.
C8_Witness ==
    /\ loc # <<>> /\ inode # <<>> /\ num = 12
    /\ loc[1].group = 2 /\ loc[1].index = 3
    /\ pc = "file_type"

\* C9: the data region of an inode is read as directory entries only if the
\* inode is a directory (type code 4), and as file bytes only if it is a
\* regular file (type code 8).
C9_DataReadByType ==
    /\ entries # <<>> => TypeCode = 4
    /\ buf # <<>> => TypeCode = 8

\* The variant of each known type code.
KnownTypes ==
    ( 1 :> "Fifo" ) @@ ( 2 :> "CharacterDevice" ) @@ ( 4 :> "Directory" ) @@
    ( 6 :> "BlockDevice" ) @@ ( 8 :> "Regular" ) @@ ( 10 :> "SymbolicLink" ) @@
    ( 12 :> "Socket" )

\* C10: file_type() gives the variant of a known type code, and on any
\* other code main ends with an error value, not with a panic of unwrap.
C10_FileTypeIsTotal ==
    ( AtFile /\ pc \in {"data", "read", "done"} ) =>
        IF TypeCode \in DOMAIN KnownTypes
        THEN FileTypeOf(inode[1].mode) = << KnownTypes[TypeCode] >>
        ELSE outcome \notin {"panic_unwrap_file_type"}
====
